---- MODULE Spec2Model ----
(***************************************************************************)
(* Model of the real-time math-quiz backend: the GameService session       *)
(* controller (dist/services/GameService.js), the socket and HTTP handlers *)
(* that drive it (src/index.ts, src/routes/gameRoutes.ts) and the surface  *)
(* of the QuestionGenerator it calls.                                      *)
(*                                                                         *)
(* Node runs every handler to its first await as one atomic step; the      *)
(* model has one action per such step.  Numeric answers are fixed-point    *)
(* integers in thousandths (42000 is 42.000), times are milliseconds.      *)
(* An optional value (null | v) is the empty tuple or the 1-tuple <<v>>.   *)
(***************************************************************************)
EXTENDS Integers, Sequences, FiniteSets, TLC

\* ---------------------------------------------------------------- bounds
MaxSockets == 1
MaxPlayers == 2
MaxQuestions == 2
MaxTicks == 1
MaxTimers == 2
MaxCalls == 2
MaxLobbySockets == 6
MaxGenerated == 3
MaxSerialCalls == 153
MaxRepeatCalls == 2
MaxSessions == 3
MaxScoreTicks == 2

\* ------------------------------------------------------ program constants
StartupDelay == 1000
JoinDelay == 500
WinDelay == 3000
Tolerance == 10
BonusWindow == 10000
MinUsernameLength == 2
MaxUsernameLength == 20
DefaultLimit == 10
MaxLimit == 50
MaxAttempts == 50
MaxExpressionTries == 20
DedupeFloor == 100
DedupeCeiling == 150
AnswerLimit == 1000000
RootThreshold == 10000

Null == <<>>
Some(x) == <<x>>
Val(o) == o[1]

SocketIds == {<<"socket", i>> : i \in 1..MaxSockets}
\* A player is a (user identifier, display name) pair a client presents.
Players == 1..MaxPlayers
UserId(p) == <<"user", p>>
Username(p) == <<"name", p>>

\* What the random generator can hand back for a round: (problem, answer).
GeneratedPool ==
    { [problem |-> "Calculate: 40 + 2", answer |-> 42000],
      [problem |-> "Find x: 7x = 49", answer |-> 7000] }

\* Numeric answers a client may send: 41.995, 42.01 and 7.
AnswerInputs == {41995, 42010, 7000}

\* An answer that wins the first question of the pool.
LobbyAnswers == {41995}

VARIABLES
    gameState,                  \* GameService.gameState
    connectedUsers,             \* GameService.connectedUsers (socketId -> user)
    submissionLock,             \* GameService.submissionLock
    currentDifficulty,          \* GameService.currentDifficulty
    questionChangeCallback,     \* TRUE once a callback is registered
    winnerAnnouncementCallback, \* TRUE once a callback is registered
    questionCounter,            \* QuestionGenerator.questionCounter
    timers,                     \* pending setTimeout callbacks, in scheduling order
    calls,                      \* submitAnswer calls suspended at the ledger await
    ledger,                     \* the User collection: username -> record
    now,                        \* the wall clock read by new Date()
    op,                         \* the step just taken
    ret,                        \* what submitAnswer returned in this step, if it did
    out,                        \* messages emitted in this step
    winsReturned,               \* question id -> number of isWinner:true results
    held,                       \* the participant set last handed out and kept
    gen                         \* QuestionGenerator: recent keys, last question returned

svc == <<gameState, connectedUsers, submissionLock, currentDifficulty,
         questionChangeCallback, winnerAnnouncementCallback, questionCounter,
         timers, calls, ledger>>
vars == <<gameState, connectedUsers, submissionLock, currentDifficulty,
          questionChangeCallback, winnerAnnouncementCallback, questionCounter,
          timers, calls, ledger, now, op, ret, out, winsReturned, held, gen>>

Abs(x) == IF x < 0 THEN -x ELSE x
Max(a, b) == IF a > b THEN a ELSE b

\* A step: the operation, its arguments, and the timer that fired if one did.
Op(name) == [name |-> name, args |-> << >>, timer |-> Null]

\* ------------------------------------------------------------- GameService

\* Faulty variant: the thresholds are exclusive.
adjustDifficulty_Exclusive(participantCount) ==
    IF participantCount < 2 THEN "easy"
    ELSE IF participantCount < 5 THEN "medium"
    ELSE "hard"

\* adjustDifficulty: the step function over connectedUsers.size.
adjustDifficulty(participantCount) ==
    IF participantCount <= 2 THEN "easy"
    ELSE IF participantCount <= 5 THEN "medium"
    ELSE "hard"

getBaseScore(difficulty) ==
    CASE difficulty = "easy" -> 100
      [] difficulty = "medium" -> 250
      [] difficulty = "hard" -> 500
      [] OTHER -> 250

\* Faulty variant: the time bonus is not held at zero after the bonus window.
TotalScore_UnclampedBonus(difficulty, timeTaken) ==
    getBaseScore(difficulty) + ((BonusWindow - timeTaken) \div 1000)

\* updateUserScore, up to its await: the score it asks the ledger to add.
TotalScore(difficulty, timeTaken) ==
    LET baseScore == getBaseScore(difficulty)
        timeBonus == Max(0, BonusWindow - timeTaken)
    IN  baseScore + (timeBonus \div 1000)

\* Faulty variant: the inserted record starts from the schema default and is
\* not incremented, so a first win is not counted.
Upsert_InsertUncounted(l, username, totalScore) ==
    IF username \in DOMAIN l
    THEN [l EXCEPT ![username] = [highScore |-> @.highScore + totalScore,
                                  gamesWon |-> @.gamesWon + 1]]
    ELSE [n \in DOMAIN l \cup {username} |->
            IF n = username THEN [highScore |-> totalScore, gamesWon |-> 0]
            ELSE l[n]]

\* UserModel.findOneAndUpdate({username}, {$inc ..}, {upsert: true}).
Upsert(l, username, totalScore) ==
    IF username \in DOMAIN l
    THEN [l EXCEPT ![username] = [highScore |-> @.highScore + totalScore,
                                  gamesWon |-> @.gamesWon + 1]]
    ELSE [n \in DOMAIN l \cup {username} |->
            IF n = username THEN [highScore |-> totalScore, gamesWon |-> 1]
            ELSE l[n]]

getConnectedUsersCount == Cardinality(DOMAIN connectedUsers)

\* Faulty variant: the isActive flag is not consulted.
RoundOpen_IgnoresActive(gs) == gs.currentQuestion # Null /\ gs.startTime # Null

\* submitAnswer line 43: the round takes submissions.
RoundOpen(gs) ==
    gs.isActive /\ gs.currentQuestion # Null /\ gs.startTime # Null

\* Faulty variant: a difference of exactly the tolerance is accepted.
IsCorrect_Inclusive(answer, expectedAnswer) == Abs(answer - expectedAnswer) <= Tolerance

\* Faulty variant: the difference is not taken in absolute value.
IsCorrect_Signed(answer, expectedAnswer) == answer - expectedAnswer < Tolerance

\* submitAnswer line 58.
IsCorrect(answer, expectedAnswer) == Abs(answer - expectedAnswer) < Tolerance

\* Faulty variant: the gate tests the lock the wrong way round.
GateClosed_LockInverted(lock, gs) == ~lock \/ gs.winner # Null

\* submitAnswer line 69: the fast-path gate.
GateClosed(lock, gs) == lock \/ gs.winner # Null

\* Faulty variants: the round is not closed at all; the winner is recorded
\* but the round stays active.
CloseRound_Skipped(gs, userId, username, submissionTime) == gs
CloseRound_StaysActive(gs, userId, username, submissionTime) ==
    [gs EXCEPT !.winner = Some([userId |-> userId, username |-> username,
                                submissionTime |-> submissionTime])]

\* submitAnswer lines 93-98: the winner record is set and the round closed.
CloseRound(gs, userId, username, submissionTime) ==
    [gs EXCEPT !.winner = Some([userId |-> userId, username |-> username,
                                submissionTime |-> submissionTime]),
               !.isActive = FALSE]

Result(isCorrect, isWinner, submissionTime, timeTaken) ==
    [isCorrect |-> isCorrect, isWinner |-> isWinner,
     submissionTime |-> submissionTime, timeTaken |-> timeTaken]

\* A finished call: its arguments and the SubmissionResult it resolved to.
\* qid is the id of the question that was current when the call was made,
\* expectedAnswer its local of that name (null when it was never read).
Returned(userId, username, answer, qid, expectedAnswer, result) ==
    Some([userId |-> userId, username |-> username, answer |-> answer,
          qid |-> qid, expectedAnswer |-> expectedAnswer, result |-> result])

QidOf(gs) == IF gs.currentQuestion = Null THEN 0 ELSE Val(gs.currentQuestion).id

\* Faulty variant: the announcement reports the submission instant as timeTaken.
WinnerAnnounced_WrongTime(userId, username, timeTaken, correctAnswer) ==
    [type |-> "winner-announced",
     winner |-> [userId |-> userId, username |-> username, timeTaken |-> now],
     correctAnswer |-> correctAnswer]

\* The payload handed to winnerAnnouncementCallback (line 111) as index.ts
\* emits it.
WinnerAnnounced(userId, username, timeTaken, correctAnswer) ==
    [type |-> "winner-announced",
     winner |-> [userId |-> userId, username |-> username, timeTaken |-> timeTaken],
     correctAnswer |-> correctAnswer]

\* const { answer, ...questionWithoutAnswer } = question
WithoutAnswer(q) ==
    [id |-> q.id, problem |-> q.problem, difficulty |-> q.difficulty,
     createdAt |-> q.createdAt]

\* The new-question event of index.ts (callback and join handler).
NewQuestionMsg(q, isActive, count, winner) ==
    [type |-> "new-question", question |-> WithoutAnswer(q),
     gameState |-> [isActive |-> isActive, participants |-> count, winner |-> winner]]

\* Timers: a callback scheduled earlier with a delay that is not longer runs first.
Timer(kind, delay, qid) == [kind |-> kind, delay |-> delay, qid |-> qid]
CanFire(i) == \A j \in 1..(i - 1) : timers[j].delay > timers[i].delay
RemoveAt(s, i) == [k \in 1..(Len(s) - 1) |-> IF k < i THEN s[k] ELSE s[k + 1]]

\* Faulty variant: no round-advance timer is armed.
ScheduleNextQuestion_Never(ts, qid) == ts

\* submitAnswer lines 117-120: the next round is scheduled after the win.
ScheduleNextQuestion(ts, qid) == Append(ts, Timer("win", WinDelay, qid))

\* Faulty variant: the round's own Set object is handed out.
ParticipantsCopy_Alias(gs) == <<"live", {}>>

\* new Set(this.gameState.participants) (lines 194 and 247): the object handed
\* out has storage of its own, filled with the round's participants. An
\* object that has none and is the round's Set itself would be tagged "live".
ParticipantsCopy(gs) == <<"copy", gs.participants>>

\* The elements seen through a handed-out set.
ElementsOf(h) == IF h[1] = "live" THEN gameState.participants ELSE h[2]

\* startNewQuestion replaces this.gameState and its Set by new objects (lines
\* 176-182): whoever holds the old Set keeps it with the elements it had.
Detached(h) ==
    IF h # Null /\ Val(h)[1] = "live" THEN Some(<<"copy", gameState.participants>>)
    ELSE h

Init ==
    /\ gameState = [currentQuestion |-> Null, isActive |-> FALSE, startTime |-> Null,
                    winner |-> Null, participants |-> {}]
    /\ connectedUsers = << >>
    /\ submissionLock = FALSE
    /\ currentDifficulty = "medium"
    /\ questionChangeCallback = FALSE
    /\ winnerAnnouncementCallback = FALSE
    /\ questionCounter = 0
    /\ timers = <<Timer("startup", StartupDelay, 0)>>
    /\ calls = << >>
    /\ ledger = << >>
    /\ now = 0
    /\ op = Op("constructor")
    /\ ret = Null
    /\ out = << >>
    /\ winsReturned = [q \in 1..MaxQuestions |-> 0]
    /\ held = Null
    /\ gen = [generatedQuestions |-> << >>, returned |-> Null]

\* Faulty variant: a new round leaves the lock as it finds it.
ResetLock_Keeps(lock) == lock

\* startNewQuestion line 185: the lock is reset with the round.
ResetLock(lock) == FALSE

\* startNewQuestion with the generator's draw g: everything it assigns.
startNewQuestion(g, timersAfter) ==
    LET difficulty == adjustDifficulty(getConnectedUsersCount)
        question == [id |-> questionCounter + 1, problem |-> g.problem,
                     answer |-> g.answer, difficulty |-> difficulty,
                     createdAt |-> now]
    IN  /\ questionCounter < MaxQuestions
        /\ currentDifficulty' = difficulty
        /\ questionCounter' = questionCounter + 1
        /\ gameState' = [currentQuestion |-> Some(question), isActive |-> TRUE,
                         startTime |-> Some(now), winner |-> Null,
                         participants |-> DOMAIN connectedUsers]
        /\ submissionLock' = ResetLock(submissionLock)
        /\ out' = IF questionChangeCallback
                  THEN <<NewQuestionMsg(question, TRUE, getConnectedUsersCount, Null)>>
                  ELSE << >>
        /\ timers' = timersAfter
        /\ ret' = Null
        /\ UNCHANGED <<connectedUsers, questionChangeCallback,
                       winnerAnnouncementCallback, calls, ledger, now, winsReturned,
                       gen>>

\* A setTimeout callback runs: each of them calls startNewQuestion.
TimerFire ==
    \E i \in 1..Len(timers), g \in GeneratedPool :
        /\ CanFire(i)
        /\ op' = [Op("timer") EXCEPT !.timer = Some(timers[i])]
        /\ startNewQuestion(g, RemoveAt(timers, i))
        /\ held' = Detached(held)

\* Faulty variant: the round is reset and left closed; no question is started.
ForceNewQuestion_OnlyResets ==
    /\ op' = Op("forceNewQuestion")
    /\ gameState' = [gameState EXCEPT !.winner = Null, !.isActive = FALSE]
    /\ submissionLock' = FALSE
    /\ out' = << >>
    /\ ret' = Null
    /\ UNCHANGED <<connectedUsers, currentDifficulty, questionChangeCallback,
                   winnerAnnouncementCallback, questionCounter, timers, calls,
                   ledger, now, winsReturned, held, gen>>

\* forceNewQuestion: winner, isActive and the lock are reset, then
\* startNewQuestion replaces the round at once.
ForceNewQuestion ==
    \E g \in GeneratedPool :
        /\ op' = Op("forceNewQuestion")
        /\ startNewQuestion(g, timers)
        /\ held' = Detached(held)

\* submitAnswer(userId, username, answer) up to its return or its await.
SubmitAnswer(userId, username, answer) ==
    LET submissionTime == now
        qid == QidOf(gameState)
        done(expected, result) ==
            /\ ret' = Returned(userId, username, answer, qid, expected, result)
            /\ UNCHANGED <<gameState, submissionLock, calls>>
    IN  /\ op' = [Op("submitAnswer") EXCEPT !.args = <<userId, username, answer>>]
        /\ out' = << >>
        /\ UNCHANGED <<connectedUsers, currentDifficulty, questionChangeCallback,
                       winnerAnnouncementCallback, questionCounter, timers, ledger,
                       now, winsReturned, held, gen>>
        /\ IF ~RoundOpen(gameState)
           THEN done(Null, Result(FALSE, FALSE, submissionTime, 0))
           ELSE LET timeTaken == submissionTime - Val(gameState.startTime)
                    expectedAnswer == Val(gameState.currentQuestion).answer
                    isCorrect == IsCorrect(answer, expectedAnswer)
                IN  IF ~isCorrect
                    THEN done(Some(expectedAnswer),
                              Result(FALSE, FALSE, submissionTime, timeTaken))
                    ELSE IF GateClosed(submissionLock, gameState)
                    THEN done(Some(expectedAnswer),
                              Result(TRUE, FALSE, submissionTime, timeTaken))
                    ELSE IF gameState.winner # Null
                    THEN \* lock taken, winner found on the re-check, lock released
                         /\ ret' = Returned(userId, username, answer, qid,
                                        Some(expectedAnswer),
                                        Result(TRUE, FALSE, submissionTime, timeTaken))
                         /\ submissionLock' = FALSE
                         /\ UNCHANGED <<gameState, calls>>
                    ELSE \* winner assigned; the call suspends at the ledger await
                         /\ Len(calls) < MaxCalls
                         /\ submissionLock' = TRUE
                         /\ gameState' = CloseRound(gameState, userId, username,
                                                    submissionTime)
                         /\ calls' = Append(calls,
                                [userId |-> userId, username |-> username,
                                 answer |-> answer, submissionTime |-> submissionTime,
                                 timeTaken |-> timeTaken,
                                 totalScore |-> TotalScore(currentDifficulty, timeTaken),
                                 qid |-> qid, expectedAnswer |-> expectedAnswer])
                         /\ ret' = Null

\* Faulty variant: a failed write rejects the await, so the call leaves through
\* its finally block only.
WriteSettles_Rethrows(ok) == ok

\* The await of updateUserScore resolves whether the write succeeded or not:
\* updateUserScore catches the error itself (lines 154-156), and submitAnswer
\* wraps the await in a try/catch of its own (lines 101-107).
WriteSettles(ok) == TRUE

\* Faulty variant: the lock is released after the success path only.
ReleaseLock_OnSuccessOnly(lock, ok) == lock /\ ~ok

\* The finally block of submitAnswer (lines 128-132) for a call that acquired
\* the lock: released whatever happened after the await.
ReleaseLock(lock, ok) == FALSE

\* The ledger write of suspended call i completes (ok) or fails (~ok, logged and
\* swallowed); the call announces the winner, schedules the next round, returns
\* and releases the lock in its finally block.
LedgerComplete(i, ok) ==
    LET c == calls[i] IN
    /\ op' = [Op("ledgerComplete") EXCEPT !.args = <<ok>>]
    /\ ledger' = IF ok THEN Upsert(ledger, c.username, c.totalScore) ELSE ledger
    /\ IF WriteSettles(ok)
       THEN /\ Len(timers) < MaxTimers
            /\ out' = IF winnerAnnouncementCallback
                      THEN <<WinnerAnnounced(c.userId, c.username, c.timeTaken,
                                             Val(gameState.currentQuestion).answer)>>
                      ELSE << >>
            /\ timers' = ScheduleNextQuestion(timers, c.qid)
            /\ ret' = Returned(c.userId, c.username, c.answer, c.qid,
                               Some(c.expectedAnswer),
                               Result(TRUE, TRUE, c.submissionTime, c.timeTaken))
            /\ winsReturned' = [winsReturned EXCEPT ![c.qid] = @ + 1]
       ELSE \* the promise rejects: nothing after the await runs but the finally
            /\ out' = << >>
            /\ ret' = Null
            /\ UNCHANGED <<timers, winsReturned>>
    /\ submissionLock' = ReleaseLock(submissionLock, ok)
    /\ calls' = RemoveAt(calls, i)
    /\ UNCHANGED <<gameState, connectedUsers, currentDifficulty, questionChangeCallback,
                   winnerAnnouncementCallback, questionCounter, now, held, gen>>

\* Faulty variant: a round start is scheduled for a first session only.
addUser_FirstOnly(socketId, userId, username) ==
    LET users == [s \in DOMAIN connectedUsers \cup {socketId} |->
                    IF s = socketId
                    THEN [id |-> userId, username |-> username, socketId |-> socketId]
                    ELSE connectedUsers[s]]
        schedule == Cardinality(DOMAIN users) = 1
    IN  /\ schedule => Len(timers) < MaxTimers
        /\ connectedUsers' = users
        /\ gameState' = [gameState EXCEPT !.participants = @ \cup {userId}]
        /\ timers' = IF schedule
                     THEN Append(timers, Timer("join", JoinDelay, QidOf(gameState)))
                     ELSE timers

\* Faulty variant: a join puts the current question back in play at once.
addUser_Reopens(socketId, userId, username) ==
    LET users == [s \in DOMAIN connectedUsers \cup {socketId} |->
                    IF s = socketId
                    THEN [id |-> userId, username |-> username, socketId |-> socketId]
                    ELSE connectedUsers[s]]
    IN  /\ connectedUsers' = users
        /\ gameState' = [gameState EXCEPT !.participants = @ \cup {userId},
                                          !.isActive = (gameState.currentQuestion # Null),
                                          !.winner = Null]
        /\ timers' = timers

\* addUser(socketId, userId, username).
addUser(socketId, userId, username) ==
    LET users == [s \in DOMAIN connectedUsers \cup {socketId} |->
                    IF s = socketId
                    THEN [id |-> userId, username |-> username, socketId |-> socketId]
                    ELSE connectedUsers[s]]
        schedule == Cardinality(DOMAIN users) = 1 \/ gameState.currentQuestion = Null
    IN  /\ schedule => Len(timers) < MaxTimers
        /\ connectedUsers' = users
        /\ gameState' = [gameState EXCEPT !.participants = @ \cup {userId}]
        /\ timers' = IF schedule
                     THEN Append(timers, Timer("join", JoinDelay, QidOf(gameState)))
                     ELSE timers

\* Faulty variant: a leave drops every session of the leaving user.
removeUser_AllOfUser(socketId) ==
    IF socketId \in DOMAIN connectedUsers
    THEN /\ connectedUsers' =
                [s \in {t \in DOMAIN connectedUsers :
                          connectedUsers[t].id # connectedUsers[socketId].id} |->
                    connectedUsers[s]]
         /\ gameState' = [gameState EXCEPT
                            !.participants = @ \ {connectedUsers[socketId].id}]
    ELSE UNCHANGED <<connectedUsers, gameState>>

\* removeUser(socketId).
removeUser(socketId) ==
    IF socketId \in DOMAIN connectedUsers
    THEN /\ connectedUsers' = [s \in DOMAIN connectedUsers \ {socketId} |->
                                 connectedUsers[s]]
         /\ gameState' = [gameState EXCEPT
                            !.participants = @ \ {connectedUsers[socketId].id}]
    ELSE UNCHANGED <<connectedUsers, gameState>>

\* socket.on("join-game") with a valid username.
JoinGame(socketId, userId, username) ==
    /\ op' = [Op("join-game") EXCEPT !.args = <<socketId, userId, username>>]
    /\ addUser(socketId, userId, username)
    /\ out' = (IF gameState.currentQuestion # Null
               THEN <<NewQuestionMsg(Val(gameState.currentQuestion), gameState.isActive,
                                     Cardinality(DOMAIN connectedUsers'),
                                     gameState.winner)>>
               ELSE << >>)
              \o <<[type |-> "user-joined", username |-> username,
                    participantCount |-> Cardinality(DOMAIN connectedUsers')],
                   [type |-> "joined-successfully", userId |-> userId,
                    username |-> username,
                    participantCount |-> Cardinality(DOMAIN connectedUsers')]>>
    /\ ret' = Null
    /\ UNCHANGED <<submissionLock, currentDifficulty, questionChangeCallback,
                   winnerAnnouncementCallback, questionCounter, calls, ledger, now,
                   winsReturned, held, gen>>

\* socket.on("disconnect") of a socket that had joined.
Disconnect(socketId) ==
    /\ socketId \in DOMAIN connectedUsers
    /\ op' = [Op("disconnect") EXCEPT !.args = <<socketId>>]
    /\ removeUser(socketId)
    /\ out' = <<[type |-> "user-left",
                 username |-> connectedUsers[socketId].username,
                 participantCount |-> Cardinality(DOMAIN connectedUsers')]>>
    /\ ret' = Null
    /\ UNCHANGED <<submissionLock, currentDifficulty, questionChangeCallback,
                   winnerAnnouncementCallback, questionCounter, timers, calls, ledger,
                   now, winsReturned, held, gen>>

\* GET /api/game/question.
GetQuestion ==
    /\ op' = Op("get-question")
    /\ out' = IF gameState.currentQuestion = Null
              THEN <<[type |-> "error", status |-> 404]>>
              ELSE <<[type |-> "question-response",
                      question |-> WithoutAnswer(Val(gameState.currentQuestion)),
                      isActive |-> gameState.isActive,
                      participants |-> Cardinality(gameState.participants),
                      winner |-> gameState.winner]>>
    /\ ret' = Null
    /\ UNCHANGED <<svc, now, winsReturned, held, gen>>

\* index.ts registers the two callbacks, one after the other, at start-up.
RegisterCallbacks ==
    /\ ~questionChangeCallback
    /\ ~winnerAnnouncementCallback
    /\ questionChangeCallback' = TRUE
    /\ winnerAnnouncementCallback' = TRUE
    /\ op' = Op("registerCallbacks")
    /\ ret' = Null
    /\ out' = << >>
    /\ UNCHANGED <<gameState, connectedUsers, submissionLock, currentDifficulty,
                   questionCounter, timers, calls, ledger, now, winsReturned, held, gen>>

\* Time passes: the clock is read at a resolution of 5 seconds, and steps taken
\* between two ticks read the same instant.
Tick ==
    /\ now < MaxTicks * 5000
    /\ now' = now + 5000
    /\ op' = Op("tick")
    /\ ret' = Null
    /\ out' = << >>
    /\ UNCHANGED <<svc, winsReturned, held, gen>>

Submit == \E p \in Players, a \in AnswerInputs : SubmitAnswer(UserId(p), Username(p), a)
Ledger == \E i \in 1..Len(calls), ok \in BOOLEAN : LedgerComplete(i, ok)
Join == \E s \in SocketIds, p \in Players : JoinGame(s, UserId(p), Username(p))
Leave == \E s \in SocketIds : Disconnect(s)

Next ==
    \/ TimerFire
    \/ ForceNewQuestion
    \/ Submit
    \/ Ledger
    \/ Join
    \/ Leave
    \/ GetQuestion
    \/ RegisterCallbacks
    \/ Tick

Spec == Init /\ [][Next]_vars

\* The scheduler runs every due timer and every ledger write settles.
FairSpec == Spec /\ WF_vars(TimerFire) /\ WF_vars(Ledger)

\* The server as index.ts and gameRoutes.ts run it: both callbacks are registered
\* at start-up, before any event is served, and nothing calls forceNewQuestion.
ServerInit ==
    /\ gameState = [currentQuestion |-> Null, isActive |-> FALSE, startTime |-> Null,
                    winner |-> Null, participants |-> {}]
    /\ connectedUsers = << >>
    /\ submissionLock = FALSE
    /\ currentDifficulty = "medium"
    /\ questionChangeCallback = TRUE
    /\ winnerAnnouncementCallback = TRUE
    /\ questionCounter = 0
    /\ timers = <<Timer("startup", StartupDelay, 0)>>
    /\ calls = << >>
    /\ ledger = << >>
    /\ now = 0
    /\ op = Op("registerCallbacks")
    /\ ret = Null
    /\ out = << >>
    /\ winsReturned = [q \in 1..MaxQuestions |-> 0]
    /\ held = Null
    /\ gen = [generatedQuestions |-> << >>, returned |-> Null]

ServerNext ==
    \/ TimerFire
    \/ Submit
    \/ Ledger
    \/ Join
    \/ Leave
    \/ GetQuestion
    \/ Tick

ServerSpec == ServerInit /\ [][ServerNext]_vars

\* The answer field of a submit-answer payload: its JavaScript type and the
\* number it is, or would be coerced to by the subtraction in submitAnswer.
SocketPayloads == {<<"number", 41995>>, <<"number", 7000>>, <<"string", 42000>>}

\* Faulty variant: the type of the answer is not tested.
IsNumber_Any(data) == TRUE

\* typeof answer === "number" (index.ts line 161).
IsNumber(data) == data[1] = "number"

\* socket.on("submit-answer") on session socketId. currentUser is set by a
\* valid join on the same session and never cleared, so it is the entry the
\* session has in connectedUsers. The result of the call is in ret.
SubmitAnswerEvent(socketId, data) ==
    LET rejected(error) ==
            /\ op' = [Op("submit-answer") EXCEPT !.args = <<socketId, data>>]
            /\ out' = <<[type |-> "submission-result", error |-> error]>>
            /\ ret' = Null
            /\ UNCHANGED <<svc, now, winsReturned, held, gen>>
    IN  IF socketId \notin DOMAIN connectedUsers
        THEN rejected("Not authenticated. Please join the game first.")
        ELSE IF ~IsNumber(data)
        THEN rejected("Invalid answer format")
        ELSE SubmitAnswer(connectedUsers[socketId].id,
                          connectedUsers[socketId].username, data[2])

SocketSubmit ==
    \E s \in SocketIds, data \in SocketPayloads : SubmitAnswerEvent(s, data)

\* The server as its socket clients drive it.
SocketNext ==
    \/ TimerFire
    \/ Join
    \/ Leave
    \/ SocketSubmit
    \/ Ledger
    \/ Tick

SocketSpec == ServerInit /\ [][SocketNext]_vars

\* ---------------------------------------------------------------- usernames

\* A username as the client sends it: the sequence of its characters.
Repeat(c, n) == [i \in 1..n |-> c]
RawUsernames ==
    {<< >>, <<"a">>, <<"a", " ">>, <<"a", "b">>, <<" ", "a", "b", " ">>,
     Repeat("a", MaxUsernameLength), Repeat("a", MaxUsernameLength + 1)}

\* String.prototype.trim.
RECURSIVE TrimStart(_)
TrimStart(s) == IF s # << >> /\ Head(s) = " " THEN TrimStart(Tail(s)) ELSE s
RECURSIVE TrimEnd(_)
TrimEnd(s) ==
    IF s # << >> /\ s[Len(s)] = " " THEN TrimEnd(SubSeq(s, 1, Len(s) - 1)) ELSE s
Trim(s) == TrimEnd(TrimStart(s))

\* !username || username.length < 2 || username.length > 20, negated
\* (index.ts line 106, gameRoutes.ts lines 46-58): tested on the name as sent.
ValidUsername(username) ==
    /\ username # << >>
    /\ Len(username) >= MinUsernameLength
    /\ Len(username) <= MaxUsernameLength

\* A request turned away at the boundary.
Rejected(name, args, reply) ==
    /\ op' = [Op(name) EXCEPT !.args = args]
    /\ out' = <<reply>>
    /\ ret' = Null
    /\ UNCHANGED <<svc, now, winsReturned, held, gen>>

\* socket.on("join-game") with the username as sent.
JoinGameEvent(socketId, userId, username) ==
    IF ~ValidUsername(username)
    THEN Rejected("join-game-rejected", <<socketId, userId, username>>,
                  [type |-> "error", message |-> "Invalid username"])
    ELSE JoinGame(socketId, userId, Trim(username))

\* POST /api/game/submit with a numeric answer and the username as sent.
PostSubmit(userId, username, answer) ==
    IF ~ValidUsername(username)
    THEN Rejected("post-submit-rejected", <<userId, username, answer>>,
                  [type |-> "error", status |-> 400])
    ELSE SubmitAnswer(userId, Trim(username), answer)

NameJoin ==
    \E s \in SocketIds, p \in Players, n \in RawUsernames :
        JoinGameEvent(s, UserId(p), n)
NameSubmit ==
    \E p \in Players, n \in RawUsernames, a \in LobbyAnswers :
        PostSubmit(UserId(p), n, a)

\* The server with the usernames its clients send.
NameNext ==
    \/ TimerFire
    \/ NameJoin
    \/ Leave
    \/ NameSubmit
    \/ Ledger

NameSpec == ServerInit /\ [][NameNext]_vars

\* -------------------------------------------------------------- leaderboard

\* req.query.limit as sent, a sequence of characters; an absent parameter
\* and an empty one both parse to NaN and are the empty sequence here.
LimitQueries ==
    {<< >>, <<"0">>, <<"a", "b">>, <<"1">>, <<"5", "0">>, <<"5", "1">>,
     <<"2", "0", "0">>, <<"-", "5">>}

Digits == <<"0", "1", "2", "3", "4", "5", "6", "7", "8", "9">>
IsDigit(c) == \E d \in 1..Len(Digits) : Digits[d] = c
DigitValue(c) == (CHOOSE d \in 1..Len(Digits) : Digits[d] = c) - 1

\* The longest prefix of s made of digits.
RECURSIVE DigitsPrefix(_)
DigitsPrefix(s) ==
    IF s # << >> /\ IsDigit(Head(s)) THEN <<Head(s)>> \o DigitsPrefix(Tail(s))
    ELSE << >>

\* The number written by a sequence of digits.
RECURSIVE Decimal(_)
Decimal(d) ==
    IF d = << >> THEN 0
    ELSE Decimal(SubSeq(d, 1, Len(d) - 1)) * 10 + DigitValue(d[Len(d)])

\* parseInt: an optional sign, then the digits that follow; NaN (none here)
\* when there is no digit.
ParseInt(s) ==
    LET signed == s # << >> /\ Head(s) \in {"-", "+"}
        d == DigitsPrefix(IF signed THEN Tail(s) ELSE s)
    IN  IF d = << >> THEN Null
        ELSE Some(IF Head(s) = "-" THEN -Decimal(d) ELSE Decimal(d))

Min(a, b) == IF a < b THEN a ELSE b

\* Faulty variant: the requested limit is passed on as it is.
LeaderboardLimit_Unclamped(query) ==
    LET parsed == ParseInt(query)
    IN  IF parsed = Null \/ Val(parsed) = 0 THEN DefaultLimit ELSE Val(parsed)

\* Math.min(parseInt(req.query.limit) || 10, 50).
LeaderboardLimit(query) ==
    LET parsed == ParseInt(query)
    IN  Min(IF parsed = Null \/ Val(parsed) = 0 THEN DefaultLimit ELSE Val(parsed),
            MaxLimit)

\* sort({highScore: -1, gamesWon: -1}): a comes no later than b.
NoLater(a, b) ==
    \/ a.highScore > b.highScore
    \/ a.highScore = b.highScore /\ a.gamesWon >= b.gamesWon

\* The orders in which the sorted query can return the records of l.
SortedBoards(l) ==
    LET n == Cardinality(DOMAIN l)
    IN  {[i \in 1..n |-> [username |-> f[i], highScore |-> l[f[i]].highScore,
                          gamesWon |-> l[f[i]].gamesWon]] :
            f \in {g \in [1..n -> DOMAIN l] :
                     /\ \A i, j \in 1..n : i # j => g[i] # g[j]
                     /\ \A i, j \in 1..n : i < j => NoLater(l[g[i]], l[g[j]])}}

\* limit(n) of the query: the first |n| records.
Take(board, n) == SubSeq(board, 1, Min(Len(board), Abs(n)))

\* GET /api/game/leaderboard; the query succeeds (ok) or fails, and then
\* getLeaderboard returns no entry.
GetLeaderboard(query, ok) ==
    LET limit == LeaderboardLimit(query)
    IN  /\ op' = [Op("get-leaderboard") EXCEPT !.args = <<query, limit>>]
        /\ \E board \in SortedBoards(ledger) :
              LET leaderboard == IF ok THEN Take(board, limit) ELSE << >>
              IN  out' = <<[type |-> "leaderboard-response",
                            leaderboard |-> leaderboard,
                            total |-> Len(leaderboard)]>>
        /\ ret' = Null
        /\ UNCHANGED <<svc, now, winsReturned, held, gen>>

Leaderboard == \E query \in LimitQueries, ok \in BOOLEAN : GetLeaderboard(query, ok)

\* The server with its leaderboard route.
LeaderboardNext ==
    \/ TimerFire
    \/ Submit
    \/ Ledger
    \/ Leaderboard

LeaderboardSpec == ServerInit /\ [][LeaderboardNext]_vars

\* A caller of getGameState keeps the object it is returned.
KeepGameState ==
    /\ held' = Some(ParticipantsCopy(gameState))
    /\ op' = Op("getGameState")
    /\ ret' = Null
    /\ out' = << >>
    /\ UNCHANGED <<svc, now, winsReturned, gen>>

\* A timer runs startNewQuestion and the question-change callback keeps the
\* game state object it is passed.
CallbackKeeps ==
    \E i \in 1..Len(timers), g \in GeneratedPool :
        /\ CanFire(i)
        /\ op' = [Op("timer") EXCEPT !.timer = Some(timers[i])]
        /\ startNewQuestion(g, RemoveAt(timers, i))
        /\ held' = IF questionChangeCallback
                   THEN Some(ParticipantsCopy(gameState'))
                   ELSE Detached(held)

\* The holder of a handed-out participant set adds x to it or deletes x from it.
MutateHeld(x, add) ==
    LET h == Val(held)
        elements == IF add THEN ElementsOf(h) \cup {x} ELSE ElementsOf(h) \ {x}
    IN  /\ held # Null
        /\ op' = [Op("mutateHeld") EXCEPT !.args = <<x, add>>]
        /\ IF h[1] = "live"
           THEN /\ gameState' = [gameState EXCEPT !.participants = elements]
                /\ UNCHANGED held
           ELSE /\ held' = Some(<<"copy", elements>>)
                /\ UNCHANGED gameState
        /\ ret' = Null
        /\ out' = << >>
        /\ UNCHANGED <<connectedUsers, submissionLock, currentDifficulty,
                       questionChangeCallback, winnerAnnouncementCallback,
                       questionCounter, timers, calls, ledger, now, winsReturned,
                       gen>>

Mutate ==
    \E x \in SocketIds \cup {UserId(p) : p \in Players}, add \in BOOLEAN :
        MutateHeld(x, add)

\* The service used by a client that keeps and edits what it is handed.
HandoutNext ==
    \/ CallbackKeeps
    \/ Join
    \/ Leave
    \/ KeepGameState
    \/ Mutate

HandoutSpec == ServerInit /\ [][HandoutNext]_vars

\* The lobby: up to MaxLobbySockets transport sessions come and go while the
\* timers run. Session i joins under the identity of player PlayerOf(i), so
\* that several sessions share a user id once there are more sessions than
\* players.
LobbySockets == {<<"socket", i>> : i \in 1..MaxLobbySockets}
PlayerOf(i) == ((i - 1) % MaxPlayers) + 1

\* Connections are numbered in the order they are open: session i joins when
\* sessions 1..i-1 are connected, and the newest session is the one to leave.
LobbyJoin ==
    \E i \in 1..MaxLobbySockets :
        /\ \A j \in 1..(i - 1) : <<"socket", j>> \in DOMAIN connectedUsers
        /\ JoinGame(<<"socket", i>>, UserId(PlayerOf(i)), Username(PlayerOf(i)))
LobbyLeave ==
    \E i \in 1..MaxLobbySockets :
        /\ \A j \in (i + 1)..MaxLobbySockets : <<"socket", j>> \notin DOMAIN connectedUsers
        /\ Disconnect(<<"socket", i>>)

\* Submissions in the lobby: any player, with an answer that wins the first
\* question of the pool.
LobbySubmit ==
    \E p \in Players, a \in LobbyAnswers : SubmitAnswer(UserId(p), Username(p), a)

LobbyNext ==
    \/ TimerFire
    \/ LobbyJoin
    \/ LobbyLeave
    \/ LobbySubmit
    \/ Ledger

LobbySpec == ServerInit /\ [][LobbyNext]_vars /\ WF_vars(TimerFire) /\ WF_vars(Ledger)

\* Scoring: sessions of one player join one after the other while rounds are
\* played and the clock advances in steps of 6.25 seconds, past the bonus
\* window.
ScoreJoin ==
    \E i \in 1..MaxLobbySockets :
        /\ <<"socket", i>> \notin DOMAIN connectedUsers
        /\ \A j \in 1..(i - 1) : <<"socket", j>> \in DOMAIN connectedUsers
        /\ JoinGame(<<"socket", i>>, UserId(1), Username(1))

ScoreSubmit == \E a \in LobbyAnswers : SubmitAnswer(UserId(1), Username(1), a)

ScoreTick ==
    /\ now < MaxScoreTicks * 6250
    /\ now' = now + 6250
    /\ op' = Op("tick")
    /\ ret' = Null
    /\ out' = << >>
    /\ UNCHANGED <<svc, winsReturned, held, gen>>

ScoreNext ==
    \/ TimerFire
    \/ ScoreJoin
    \/ ScoreSubmit
    \/ Ledger
    \/ ScoreTick

ScoreSpec == ServerInit /\ [][ScoreNext]_vars

\* Presence: addUser and removeUser called directly, for any of
\* MaxSessions sessions, with any pairing of user id and display name, and
\* removeUser also for a session that never joined.
Sessions == {<<"socket", i>> : i \in 1..MaxSessions}

AddUser(socketId, userId, username) ==
    /\ op' = [Op("addUser") EXCEPT !.args = <<socketId, userId, username>>]
    /\ addUser(socketId, userId, username)
    /\ out' = << >>
    /\ ret' = Null
    /\ UNCHANGED <<submissionLock, currentDifficulty, questionChangeCallback,
                   winnerAnnouncementCallback, questionCounter, calls, ledger, now,
                   winsReturned, held, gen>>

RemoveUser(socketId) ==
    /\ op' = [Op("removeUser") EXCEPT !.args = <<socketId>>]
    /\ removeUser(socketId)
    /\ out' = << >>
    /\ ret' = Null
    /\ UNCHANGED <<submissionLock, currentDifficulty, questionChangeCallback,
                   winnerAnnouncementCallback, questionCounter, timers, calls, ledger,
                   now, winsReturned, held, gen>>

PresenceAdd ==
    \E s \in Sessions, p \in Players, n \in Players : AddUser(s, UserId(p), Username(n))
PresenceRemove == \E s \in Sessions : RemoveUser(s)

PresenceNext ==
    \/ TimerFire
    \/ PresenceAdd
    \/ PresenceRemove

PresenceSpec == ServerInit /\ [][PresenceNext]_vars

\* ------------------------------------------------------- QuestionGenerator
\* The service specifications above take the generator's result from
\* GeneratedPool; the generator itself is modelled here.  Every outcome of
\* Math.random() is an integer r in 0..999 standing for r/1000, and one
\* candidate question consumes a stream of outcomes rs that continues with
\* its last value.  A problem text is the record of its wording (form), the
\* literal numbers it shows (nums) and the operators between them (ops).
\* Intermediate values are exact fractions <<numerator, denominator>>.

QUESTION_TYPES ==
    <<"arithmetic", "algebra", "fractions", "percentages", "powers", "mixed">>

DIFFICULTY_CONFIG(difficulty) ==
    CASE difficulty = "easy" ->
            [min |-> 1, max |-> 50, operators |-> <<"+", "-">>, maxTerms |-> 2]
      [] difficulty = "medium" ->
            [min |-> 1, max |-> 200, operators |-> <<"+", "-", "*">>, maxTerms |-> 3]
      [] difficulty = "hard" ->
            [min |-> 1, max |-> 1000, operators |-> <<"+", "-", "*", "/">>,
             maxTerms |-> 4]

\* The i-th outcome of a stream.
Rnd(rs, i) == rs[Min(i, Len(rs))]

\* Math.floor(Math.random() * n).
RandomIndex(r, n) == (r * n) \div 1000

randomNumber(min, max, r) == RandomIndex(r, max - min + 1) + min

\* Math.round(x * places) / places, in thousandths; Math.round rounds a
\* half towards +infinity.
RoundTo(x, places) ==
    ((2 * x[1] * places + x[2]) \div (2 * x[2])) * (1000 \div places)

Problem(form, nums, ops) == [form |-> form, nums |-> nums, ops |-> ops]

\* isValidAnswer: a finite number of magnitude below 1,000,000.
isValidAnswer(result) ==
    /\ result[2] # 0
    /\ Abs(result[1]) < AnswerLimit * Abs(result[2])

\* mathjs evaluate on "n1 op n2 op n3 ...": * and / bind tighter than + and -,
\* all left to right.  sum holds the closed terms, term the open product.
RECURSIVE EvaluateFrom(_, _, _, _, _)
EvaluateFrom(nums, ops, i, sum, term) ==
    IF i > Len(ops)
    THEN <<sum[1] * term[2] + term[1] * sum[2], sum[2] * term[2]>>
    ELSE LET n == nums[i + 1]
             closed == <<sum[1] * term[2] + term[1] * sum[2], sum[2] * term[2]>>
         IN  CASE ops[i] = "*" -> EvaluateFrom(nums, ops, i + 1, sum, <<term[1] * n, term[2]>>)
               [] ops[i] = "/" -> EvaluateFrom(nums, ops, i + 1, sum, <<term[1], term[2] * n>>)
               [] ops[i] = "+" -> EvaluateFrom(nums, ops, i + 1, closed, <<n, 1>>)
               [] ops[i] = "-" -> EvaluateFrom(nums, ops, i + 1, closed, <<-n, 1>>)

evaluate(nums, ops) == EvaluateFrom(nums, ops, 1, <<0, 1>>, <<nums[1], 1>>)

\* findDivisor's list: for i = 1 .. sqrt(num), i and num / i when i divides.
RECURSIVE DivisorsFrom(_, _)
DivisorsFrom(num, i) ==
    IF i * i > num THEN << >>
    ELSE (IF num % i = 0
          THEN (IF i # num \div i THEN <<i, num \div i>> ELSE <<i>>)
          ELSE << >>) \o DivisorsFrom(num, i + 1)

findDivisor(num, r) ==
    IF num <= 1 THEN 1
    ELSE LET divisors == DivisorsFrom(num, 1)
         IN  divisors[RandomIndex(r, Len(divisors)) + 1]

\* generateArithmeticExpression, from its second term on: the expression so
\* far and the position reached in the stream.
RECURSIVE ExpressionFrom(_, _, _, _, _, _)
ExpressionFrom(config, numTerms, nums, ops, rs, at) ==
    IF Len(nums) >= numTerms THEN [nums |-> nums, ops |-> ops, at |-> at]
    ELSE LET operator == config.operators[
                             RandomIndex(Rnd(rs, at), Len(config.operators)) + 1]
             drawn == randomNumber(config.min, config.max, Rnd(rs, at + 1))
             currentResult == evaluate(nums, ops)
             uneven == currentResult[1] % (currentResult[2] * Max(1, drawn)) # 0
             replace == uneven /\ Rnd(rs, at + 2) > 300
             whole == Abs(currentResult[1] \div currentResult[2])
             nextNumber ==
                 IF operator # "/" THEN drawn
                 ELSE IF replace THEN findDivisor(whole, Rnd(rs, at + 3))
                 ELSE Max(1, drawn)
             used ==
                 IF operator # "/" THEN 2
                 ELSE IF ~uneven THEN 2
                 ELSE IF ~replace \/ whole <= 1 THEN 3
                 ELSE 4
         IN  ExpressionFrom(config, numTerms, Append(nums, nextNumber),
                            Append(ops, operator), rs, at + used)

generateArithmeticExpression(config, numTerms, rs, at) ==
    ExpressionFrom(config, numTerms,
                   <<randomNumber(config.min, config.max, Rnd(rs, at))>>, << >>,
                   rs, at + 1)

\* generateArithmetic's loop: up to MaxExpressionTries expressions; the first
\* valid one gives the answer, otherwise the answer keeps its initial 0 and
\* the problem shows the last expression.
RECURSIVE ArithmeticLoop(_, _, _, _, _)
ArithmeticLoop(config, numTerms, attempts, rs, at) ==
    LET e == generateArithmeticExpression(config, numTerms, rs, at)
        result == evaluate(e.nums, e.ops)
    IN  IF isValidAnswer(result)
        THEN [problem |-> Problem("calculate", e.nums, e.ops),
              answer |-> RoundTo(result, 100), tries |-> attempts + 1]
        ELSE IF attempts + 1 < MaxExpressionTries
        THEN ArithmeticLoop(config, numTerms, attempts + 1, rs, e.at)
        ELSE [problem |-> Problem("calculate", e.nums, e.ops),
              answer |-> 0, tries |-> attempts + 1]

generateArithmetic(difficulty, rs, at) ==
    LET config == DIFFICULTY_CONFIG(difficulty)
        numTerms == RandomIndex(Rnd(rs, at), config.maxTerms - 1) + 2
    IN  ArithmeticLoop(config, numTerms, 0, rs, at + 1)

generateAlgebra(difficulty, rs, at) ==
    LET max == CASE difficulty = "easy" -> 20
                 [] difficulty = "medium" -> 50
                 [] difficulty = "hard" -> 100
        a == randomNumber(1, max, Rnd(rs, at))
        b == randomNumber(1, max, Rnd(rs, at + 1))
        x == randomNumber(1, max, Rnd(rs, at + 2))
        selected == RandomIndex(Rnd(rs, at + 3), 4)
        problem ==
            CASE selected = 0 -> Problem("if ax + b = c find x", <<a, b, a * x + b>>, << >>)
              [] selected = 1 -> Problem("solve ax - b = c", <<a, b, a * x - b>>, << >>)
              [] selected = 2 -> Problem("x when a(x + b) = c", <<a, b, a * (x + b)>>, << >>)
              [] selected = 3 -> Problem("find x: ax = c", <<a, a * x>>, << >>)
    IN  [problem |-> problem, answer |-> x * 1000, tries |-> 0]

generateFractions(difficulty, rs, at) ==
    LET maxDenom == IF difficulty = "easy" THEN 10
                    ELSE IF difficulty = "medium" THEN 20 ELSE 50
        num1 == randomNumber(1, maxDenom - 1, Rnd(rs, at))
        den1 == randomNumber(num1 + 1, maxDenom, Rnd(rs, at + 1))
        num2 == randomNumber(1, maxDenom - 1, Rnd(rs, at + 2))
        den2 == randomNumber(num2 + 1, maxDenom, Rnd(rs, at + 3))
        operator == <<"+", "-">>[RandomIndex(Rnd(rs, at + 4), 2) + 1]
        result == IF operator = "+"
                  THEN <<num1 * den2 + num2 * den1, den1 * den2>>
                  ELSE <<num1 * den2 - num2 * den1, den1 * den2>>
    IN  [problem |-> Problem("fractions as decimal", <<num1, den1, num2, den2>>,
                             <<operator>>),
         answer |-> RoundTo(result, 1000), tries |-> 0]

generatePercentages(difficulty, rs, at) ==
    LET base == randomNumber(50, 1000, Rnd(rs, at))
        percentage == randomNumber(5, 95, Rnd(rs, at + 1))
        selected == RandomIndex(Rnd(rs, at + 2), 2)
    IN  IF selected = 0
        THEN [problem |-> Problem("what is p% of n", <<percentage, base>>, << >>),
              answer |-> RoundTo(<<base * percentage, 100>>, 100), tries |-> 0]
        ELSE [problem |-> Problem("n is what percent of m",
                                  <<base, RoundTo(<<base * 100, percentage>>, 1) \div 1000>>,
                                  << >>),
              answer |-> percentage * 1000, tries |-> 0]

RECURSIVE Pow(_, _)
Pow(base, power) == IF power = 0 THEN 1 ELSE base * Pow(base, power - 1)

generatePowers(difficulty, rs, at) ==
    LET maxBase == IF difficulty = "easy" THEN 10
                   ELSE IF difficulty = "medium" THEN 15 ELSE 20
        maxPower == IF difficulty = "easy" THEN 3
                    ELSE IF difficulty = "medium" THEN 4 ELSE 5
        base == randomNumber(2, maxBase, Rnd(rs, at))
        power == randomNumber(2, maxPower, Rnd(rs, at + 1))
        result == Pow(base, power)
        num == randomNumber(4, 100, Rnd(rs, at + 2))
        roots == {s \in 2..10 : s * s = num}
    IN  IF result > RootThreshold /\ roots # {}
        THEN [problem |-> Problem("square root", <<num>>, << >>),
              answer |-> (CHOOSE s \in roots : TRUE) * 1000, tries |-> 0]
        ELSE [problem |-> Problem("power", <<base, power>>, << >>),
              answer |-> result * 1000, tries |-> 0]

\* mathjs evaluate on the six parenthesised templates of generateMixed.
MixedValue(selected, a, b, c) ==
    CASE selected = 0 -> <<(a + b) * c, 1>>
      [] selected = 1 -> <<a * (b + c), 1>>
      [] selected = 2 -> <<a + b, c>>
      [] selected = 3 -> <<a + b * c, 1>>
      [] selected = 4 -> <<a * b - c, 1>>
      [] selected = 5 -> <<(a - b) + c * 2, 1>>

MixedForms ==
    <<"(a + b) * c", "a * (b + c)", "(a + b) / c", "a + b * c", "a * b - c",
      "(a - b) + c * 2">>

generateMixed(difficulty, rs, at) ==
    LET config == DIFFICULTY_CONFIG(difficulty)
        a == randomNumber(config.min, Min(config.max, 50), Rnd(rs, at))
        b == randomNumber(config.min, Min(config.max, 50), Rnd(rs, at + 1))
        c == randomNumber(config.min, Min(config.max, 50), Rnd(rs, at + 2))
        selected == RandomIndex(Rnd(rs, at + 3), 6)
    IN  [problem |-> Problem(MixedForms[selected + 1], <<a, b, c>>, << >>),
         answer |-> RoundTo(MixedValue(selected, a, b, c), 100), tries |-> 0]

\* Faulty variant: the subtraction is taken the other way round.
generateSimpleArithmetic_Swapped(difficulty, rs, at) ==
    LET config == DIFFICULTY_CONFIG(difficulty)
        a == randomNumber(config.min, config.max, Rnd(rs, at))
        b == randomNumber(config.min, config.max, Rnd(rs, at + 1))
        operator == <<"+", "-", "*">>[RandomIndex(Rnd(rs, at + 2), 3) + 1]
        result == CASE operator = "+" -> a + b
                    [] operator = "-" -> b - a
                    [] operator = "*" -> a * b
    IN  [problem |-> Problem("calculate", <<a, b>>, <<operator>>),
         answer |-> result * 1000, tries |-> 0]

\* generateSimpleArithmetic, the fallback: the result comes from a switch on
\* the operator, not from an expression evaluation.
generateSimpleArithmetic(difficulty, rs, at) ==
    LET config == DIFFICULTY_CONFIG(difficulty)
        a == randomNumber(config.min, config.max, Rnd(rs, at))
        b == randomNumber(config.min, config.max, Rnd(rs, at + 1))
        operator == <<"+", "-", "*">>[RandomIndex(Rnd(rs, at + 2), 3) + 1]
        result == CASE operator = "+" -> a + b
                    [] operator = "-" -> a - b
                    [] operator = "*" -> a * b
    IN  [problem |-> Problem("calculate", <<a, b>>, <<operator>>),
         answer |-> result * 1000, tries |-> 0]

\* Faulty variant: every difficulty draws among the six types.
getRandomQuestionType_AnyType(difficulty, r) ==
    QUESTION_TYPES[RandomIndex(r, Len(QUESTION_TYPES)) + 1]

getRandomQuestionType(difficulty, r) ==
    CASE difficulty = "easy" -> QUESTION_TYPES[RandomIndex(r, 2) + 1]
      [] difficulty = "medium" -> QUESTION_TYPES[RandomIndex(r, 4) + 1]
      [] difficulty = "hard" -> QUESTION_TYPES[RandomIndex(r, Len(QUESTION_TYPES)) + 1]
      [] OTHER -> "arithmetic"

generateQuestionByType(type, difficulty, rs, at) ==
    CASE type = "arithmetic" -> generateArithmetic(difficulty, rs, at)
      [] type = "algebra" -> generateAlgebra(difficulty, rs, at)
      [] type = "fractions" -> generateFractions(difficulty, rs, at)
      [] type = "percentages" -> generatePercentages(difficulty, rs, at)
      [] type = "powers" -> generatePowers(difficulty, rs, at)
      [] type = "mixed" -> generateMixed(difficulty, rs, at)
      [] OTHER -> generateArithmetic(difficulty, rs, at)

\* One pass of generateQuestion's loop body up to the dedupe test.
Candidate(difficulty, rs) ==
    LET questionType == getRandomQuestionType(difficulty, Rnd(rs, 1))
        question == generateQuestionByType(questionType, difficulty, rs, 2)
    IN  [type |-> questionType, problem |-> question.problem,
         answer |-> question.answer, tries |-> question.tries]

questionKey(question) == <<question.problem, question.answer>>

\* generatedQuestions is a Set: its keys in insertion order.
HasKey(keys, key) == \E i \in DOMAIN keys : keys[i] = key

\* Faulty variant: a key that is present is never accepted.
Accepts_NeverRepeats(keys, key) == ~HasKey(keys, key)

Accepts(keys, key) == ~HasKey(keys, key) \/ Len(keys) > DedupeFloor

AddKey(keys, key) == IF HasKey(keys, key) THEN keys ELSE Append(keys, key)

\* Faulty variant: the trim keeps the oldest keys.
TrimKeys_KeepOldest(keys) ==
    IF Len(keys) > DedupeCeiling THEN SubSeq(keys, 1, DedupeFloor) ELSE keys

\* Array.from(set).slice(-100) once the set holds more than 150 keys.
TrimKeys(keys) ==
    IF Len(keys) > DedupeCeiling
    THEN SubSeq(keys, Len(keys) - DedupeFloor + 1, Len(keys))
    ELSE keys

\* n copies of a pattern of outcomes, one after the other.
Cycle(pattern, n) ==
    [i \in 1..(n * Len(pattern)) |-> pattern[((i - 1) % Len(pattern)) + 1]]

\* Streams of random outcomes for one candidate or one fallback.  The last
\* but one draws, for the hard arithmetic type, "1000 * 2 / 7" and replaces
\* the 7 by a divisor of 2000; the last one two terms and then "1000 * 1000"
\* at every pass of the inner loop.
Streams ==
    { <<0, 400, 400>>, <<999>>, <<400>>, <<700, 750>>, <<700, 999, 999, 468>>,
      <<800, 0, 999, 999>>, <<900, 0, 0, 100, 400>>, <<0, 999, 19, 999, 2, 999, 999>>,
      <<0, 400, 999, 600, 1, 999, 6, 999, 60>>,
      <<0, 0>> \o Cycle(<<999, 600, 999>>, MaxExpressionTries) }

\* Numbers of rejected passes that precede the pass that returns.
RejectedCounts == {0, 1, MaxAttempts - 1, MaxAttempts}

\* What each stream gives at each difficulty: as a candidate of the loop, and
\* as the fallback.
Candidates ==
    [difficulty \in {"easy", "medium", "hard"} |->
        [rs \in Streams |-> Candidate(difficulty, rs)]]

Fallbacks ==
    [difficulty \in {"easy", "medium", "hard"} |->
        [rs \in Streams |-> generateSimpleArithmetic(difficulty, rs, 1)]]

\* generateQuestion(difficulty).  The first `rejected` passes draw, among the
\* candidates `drawable`, ones the dedupe test refuses, which changes nothing
\* but the attempt count; then either a pass drawing candidate c is accepted,
\* or the attempts are used up and the fallback returns f.
generateQuestion(difficulty, rejected, drawable, c, f) ==
    LET keys == gen.generatedQuestions
        added == AddKey(keys, questionKey(c))
    IN  /\ rejected > 0 => \E r \in drawable : ~Accepts(keys, questionKey(r))
        /\ IF rejected < MaxAttempts
           THEN /\ Accepts(keys, questionKey(c))
                /\ gen' = [generatedQuestions |-> TrimKeys(added),
                           returned |-> Some(
                               [question |-> [id |-> questionCounter + 1,
                                              problem |-> c.problem,
                                              answer |-> c.answer,
                                              difficulty |-> difficulty],
                                type |-> c.type, fallback |-> FALSE,
                                attempts |-> rejected, tries |-> c.tries,
                                trimmed |-> Len(added) > DedupeCeiling])]
           ELSE gen' = [gen EXCEPT !.returned = Some(
                               [question |-> [id |-> questionCounter + 1,
                                              problem |-> f.problem,
                                              answer |-> f.answer,
                                              difficulty |-> difficulty],
                                type |-> "arithmetic", fallback |-> TRUE,
                                attempts |-> rejected, tries |-> 0,
                                trimmed |-> FALSE])]
        /\ questionCounter' = questionCounter + 1
        /\ UNCHANGED <<gameState, connectedUsers, submissionLock, currentDifficulty,
                       questionChangeCallback, winnerAnnouncementCallback,
                       timers, calls, ledger, now, op, ret, out, winsReturned, held>>

Generate ==
    /\ questionCounter < MaxGenerated
    /\ \E difficulty \in {"easy", "medium", "hard"}, rejected \in RejectedCounts,
          rs \in Streams :
          generateQuestion(difficulty, rejected,
                           {Candidates[difficulty][rr] : rr \in Streams},
                           Candidates[difficulty][rs], Fallbacks[difficulty][rs])

GeneratorNext == Generate

\* The generator called with any difficulty and any of the streams.
GeneratorSpec == Init /\ [][GeneratorNext]_vars

\* A long run of easy calls.  The n-th fresh question is the arithmetic
\* question "Calculate: a + b" with a = n % 50 + 1 and b = n \div 50 + 1.
SerialStream(n) == <<0, 0, 20 * (n % 50), 0, 20 * (n \div 50)>>

\* The outcomes with which the fallback builds the same "a + b".
SerialFallbackStream(n) == <<20 * (n % 50), 20 * (n \div 50), 0>>

SerialCandidates == [n \in 0..MaxSerialCalls |-> Candidate("easy", SerialStream(n))]

SerialFallbacks ==
    [n \in 0..MaxSerialCalls |->
        generateSimpleArithmetic("easy", SerialFallbackStream(n), 1)]

SerialOf(key) == (key[1].nums[1] - 1) + 50 * (key[1].nums[2] - 1)

\* The number of keys inserted so far in a long run.
Inserted(keys) == IF keys = << >> THEN 0 ELSE SerialOf(keys[Len(keys)]) + 1

\* The questions a call of the long run draws from: the next fresh one, the
\* newest one again, the oldest one kept again.
SerialDraws ==
    LET keys == gen.generatedQuestions
    IN  IF keys = << >> THEN {0}
        ELSE {Inserted(keys), Inserted(keys) - 1, SerialOf(keys[1])}

\* At most MaxRepeatCalls calls of a long run return without inserting a key
\* (an accepted repeat, or the fallback).
GenerateSerial ==
    /\ questionCounter < MaxSerialCalls
    /\ \E rejected \in RejectedCounts, n \in SerialDraws :
          /\ \/ rejected < MaxAttempts /\ n = Inserted(gen.generatedQuestions)
             \/ questionCounter - Inserted(gen.generatedQuestions) < MaxRepeatCalls
          /\ generateQuestion("easy", rejected,
                              {SerialCandidates[m] : m \in SerialDraws},
                              SerialCandidates[n], SerialFallbacks[n])

SerialNext == GenerateSerial

SerialSpec == Init /\ [][SerialNext]_vars

\* ------------------------------------------------------------------ claims

\* An active round with no winner.
RoundActive == RoundOpen(gameState) /\ gameState.winner = Null
CurrentAnswer == Val(gameState.currentQuestion).answer
WithinTolerance(answer, expected) == Abs(answer - expected) < Tolerance
Pending(q) == {i \in 1..Len(calls) : calls[i].qid = q}
Announcements == {i \in 1..Len(out) : out[i].type = "winner-announced"}

\* The numeric answers a message carries.
AnswersIn(msg) ==
    (IF "correctAnswer" \in DOMAIN msg THEN {msg.correctAnswer} ELSE {})
    \cup (IF "question" \in DOMAIN msg /\ "answer" \in DOMAIN msg.question
          THEN {msg.question.answer} ELSE {})

\* C1: for every round (question id), at most one submitAnswer call returns or is
\* about to return isWinner:true, whatever the interleaving.
C1_AtMostOneWinnerPerRound ==
    \A q \in 1..MaxQuestions : winsReturned[q] + Cardinality(Pending(q)) <= 1

\* C1 witness: while the winner's call is suspended at the ledger write, a second
\* correct submission for the same round has returned isWinner:false.
C1_Witness ==
    /\ ret # Null
    /\ op.name = "submitAnswer"
    /\ Val(ret).qid > 0
    /\ Pending(Val(ret).qid) # {}
    /\ WithinTolerance(Val(ret).answer, CurrentAnswer)
    /\ ~Val(ret).result.isWinner

\* C2: a submission within tolerance of the round's answer, made after the round's
\* winner was set and before the next round, returns isCorrect:true, isWinner:false.
C2_LateCorrectIsCorrectNotWinner ==
    (/\ op.name = "submitAnswer"
     /\ ret # Null
     /\ gameState.currentQuestion # Null
     /\ gameState.winner # Null
     /\ WithinTolerance(op.args[3], CurrentAnswer))
    => (Val(ret).result.isCorrect /\ ~Val(ret).result.isWinner)

\* C3: no message emitted while a round is active and unwon carries that round's
\* numeric answer.
C3_NoAnswerWhileRoundActive ==
    RoundActive => \A i \in 1..Len(out) : CurrentAnswer \notin AnswersIn(out[i])

\* C4: the correctAnswer of a winner-announced push is the answer of the round the
\* announced winner won.
C4_AnnouncedAnswerIsOfWonRound ==
    \A i \in Announcements :
        ret # Null /\ out[i].correctAnswer = Val(Val(ret).expectedAnswer)

\* C5: with the announcement callback registered, a call returning isWinner:true
\* emits exactly one winner-announced push with the userId, username and timeTaken
\* of its winner record and result; a step in which no call returns isWinner:true
\* emits none.  A suspended winner's record is the round's winner record.
C5_OneAnnouncementPerWin ==
    /\ (ret # Null /\ Val(ret).result.isWinner /\ winnerAnnouncementCallback)
        => /\ Cardinality(Announcements) = 1
           /\ \A i \in Announcements :
                out[i].winner = [userId |-> Val(ret).userId,
                                 username |-> Val(ret).username,
                                 timeTaken |-> Val(ret).result.timeTaken]
    /\ (ret = Null \/ ~Val(ret).result.isWinner) => Announcements = {}
    /\ \A i \in 1..Len(calls) :
            calls[i].qid = QidOf(gameState)
            => gameState.winner = Some([userId |-> calls[i].userId,
                                        username |-> calls[i].username,
                                        submissionTime |-> calls[i].submissionTime])

C5_Witness ==
    /\ ret # Null
    /\ Val(ret).result.isWinner
    /\ winnerAnnouncementCallback
    /\ Announcements # {}
    /\ Val(ret).result.timeTaken > 0

\* C6: a winner record implies the round is not active, and within one round a
\* winner record that is set stays as it is.
C6_WinnerClosesRoundAndStays ==
    /\ [](gameState.winner # Null => ~gameState.isActive)
    /\ [][(gameState.winner # Null /\ QidOf(gameState') = QidOf(gameState))
            => gameState'.winner = gameState.winner]_vars

\* C6 witness: a correct submission by another player has been turned away from a
\* round whose winner is set.
C6_Witness ==
    /\ gameState.winner # Null
    /\ op.name = "submitAnswer"
    /\ ret # Null
    /\ op.args[1] # Val(gameState.winner).userId
    /\ WithinTolerance(op.args[3], CurrentAnswer)

\* C7: an active round with no winner ends only through a winning submission or a
\* forced reset; no timer-driven round start replaces it.
C7_ActiveRoundEndsByWinOrReset ==
    [][(RoundActive /\ (QidOf(gameState') # QidOf(gameState) \/ ~gameState'.isActive))
        => op'.name \in {"submitAnswer", "forceNewQuestion"}]_vars

\* C8: once a winner is assigned the closed round stays until the round-advance
\* timer scheduled by that win fires: no other step starts a new question.
C8_ClosedRoundStaysForDelay ==
    [][(gameState.winner # Null /\ QidOf(gameState') # QidOf(gameState))
        => op'.timer = Some(Timer("win", WinDelay, QidOf(gameState)))]_vars

\* C9: (fair timers and ledger writes) every winner assignment is eventually followed
\* by a new active round: another question id, isActive, no winner.  Question ids
\* are bounded by MaxQuestions, so the last round is left out.
C9_WinLeadsToNewRound ==
    \A q \in 1..(MaxQuestions - 1) :
        (gameState.winner # Null /\ QidOf(gameState) = q)
        ~> (QidOf(gameState) # q /\ gameState.isActive /\ gameState.winner = Null)

\* C9 witness: the round-advance timer of a win has fired and started the next round.
C9_Witness ==
    /\ op.name = "timer"
    /\ Val(op.timer).kind = "win"
    /\ Val(op.timer).qid = QidOf(gameState) - 1
    /\ RoundActive

\* C10: a submitAnswer call whose answer is not within tolerance of the round's
\* answer changes no state of the controller, schedules no timer, asks for no
\* ledger update and emits nothing.
C10_IncorrectSubmissionIsNoOp ==
    [][(/\ op'.name = "submitAnswer"
        /\ gameState.currentQuestion # Null
        /\ ~WithinTolerance(op'.args[3], CurrentAnswer))
        => /\ UNCHANGED <<svc, now, winsReturned>>
           /\ out' = << >>
           /\ ret' # Null
           /\ ~Val(ret').result.isCorrect
           /\ ~Val(ret').result.isWinner]_vars

\* C10 witness: an incorrect submission has returned during an active round.
C10_Witness ==
    /\ op.name = "submitAnswer"
    /\ RoundActive
    /\ ret # Null
    /\ ~WithinTolerance(op.args[3], CurrentAnswer)
    /\ ~Val(ret).result.isCorrect
    /\ Val(ret).result.timeTaken > 0

\* C11: a submitAnswer call made while there is no active round (no current
\* question, isActive false, or no start time) returns isCorrect false,
\* isWinner false and timeTaken 0 whatever the answer, and the step changes
\* nothing of the service's state and emits nothing.
C11_NoActiveRoundSubmissionIsNoOp ==
    [][(/\ op'.name = "submitAnswer"
        /\ \/ gameState.currentQuestion = Null
           \/ ~gameState.isActive
           \/ gameState.startTime = Null)
       => /\ ret' # Null
          /\ Val(ret').result = [isCorrect |-> FALSE, isWinner |-> FALSE,
                                 submissionTime |-> now, timeTaken |-> 0]
          /\ out' = << >>
          /\ UNCHANGED <<svc, now, winsReturned>>]_vars

\* A submission whose answer is within tolerance of the question's answer was
\* turned away with timeTaken 0 from a round closed five seconds after its start.
C11_Witness ==
    /\ op.name = "submitAnswer"
    /\ gameState.currentQuestion # Null
    /\ ~gameState.isActive
    /\ now > Val(gameState.startTime)
    /\ ret # Null
    /\ WithinTolerance(Val(ret).answer, CurrentAnswer)
    /\ Val(ret).result.timeTaken = 0

\* C12: when the ledger write of a winning submission fails, nothing but the
\* ledger is affected: the ledger keeps its records, and the call still
\* returns isCorrect true and isWinner true, still hands the announcement to
\* a registered callback, still schedules the next round after the
\* post-win delay, and releases the lock.
C12_FailedLedgerWriteOnlyMissesLedger ==
    [][(op'.name = "ledgerComplete" /\ op'.args = <<FALSE>>)
       => /\ ledger' = ledger
          /\ ret' # Null
          /\ Val(ret').result.isCorrect /\ Val(ret').result.isWinner
          /\ winnerAnnouncementCallback
                => /\ Len(out') = 1
                   /\ out'[1].type = "winner-announced"
                   /\ out'[1].winner.userId = Val(ret').userId
          /\ Len(timers') = Len(timers) + 1
          /\ timers'[Len(timers')].kind = "win"
          /\ timers'[Len(timers')].delay = WinDelay
          /\ \A k \in 1..Len(timers) : timers'[k] = timers[k]
          /\ ~submissionLock'
          /\ UNCHANGED <<gameState, connectedUsers>>]_vars

\* A winner's write failed on an empty ledger: the winner was announced and
\* told so, the ledger is still empty and the lock is free.
C12_Witness ==
    /\ op.name = "ledgerComplete"
    /\ op.args = <<FALSE>>
    /\ ledger = << >>
    /\ ret # Null
    /\ Val(ret).result.isWinner
    /\ Announcements # {}
    /\ ~submissionLock

\* The difficulty the rule assigns to n connected transport sessions.
DifficultyFor(n) ==
    CASE n \in 0..2 -> "easy"
      [] n \in 3..5 -> "medium"
      [] n >= 6 -> "hard"

\* C13: a round that startNewQuestion has just started carries the difficulty
\* given by the number of transport sessions connected at that moment (0 to 2
\* easy, 3 to 5 medium, 6 or more hard), as the service's current difficulty
\* and as the question's tag; the tag of the current question always equals
\* the service's current difficulty.
C13_DifficultyFollowsSessionCount ==
    /\ op.name \in {"timer", "forceNewQuestion"}
         => /\ gameState.currentQuestion # Null
            /\ currentDifficulty = DifficultyFor(Cardinality(DOMAIN connectedUsers))
    /\ gameState.currentQuestion # Null
         => Val(gameState.currentQuestion).difficulty = currentDifficulty

\* A round was started with six sessions connected and is hard.
C13_Witness ==
    /\ op.name = "timer"
    /\ Cardinality(DOMAIN connectedUsers) = 6
    /\ Val(gameState.currentQuestion).difficulty = "hard"

\* The win count the ledger holds for a username (none without a record).
GamesWon(l, username) == IF username \in DOMAIN l THEN l[username].gamesWon ELSE 0

\* The step resolved a submitAnswer call with isWinner true.
WinnerReturned(r) == r # Null /\ Val(r).result.isWinner

\* C14: the ledger starts without records, and as long as writes succeed it
\* counts winning returns per username: a step in which a submitAnswer call
\* returns isWinner true, its write having succeeded, raises that username's
\* win count by exactly one (creating the record at one on a first win) and
\* leaves every other record alone; a step that returns no isWinner true
\* result (an incorrect, late or turned-away submission among them) leaves
\* the ledger as it was.
C14_LedgerCountsWinningReturns ==
    /\ ledger = << >>
    /\ [][LET okWrite == op'.name = "ledgerComplete" /\ op'.args = <<TRUE>>
              failed == op'.name = "ledgerComplete" /\ op'.args = <<FALSE>>
          IN  /\ WinnerReturned(ret') => okWrite \/ failed
              /\ okWrite => WinnerReturned(ret')
              /\ ~failed =>
                   /\ DOMAIN ledger' = DOMAIN ledger \cup
                        (IF WinnerReturned(ret') THEN {Val(ret').username} ELSE {})
                   /\ \A p \in Players :
                        GamesWon(ledger', Username(p)) =
                            GamesWon(ledger, Username(p)) +
                            (IF WinnerReturned(ret') /\ Val(ret').username = Username(p)
                             THEN 1 ELSE 0)
              /\ ~WinnerReturned(ret') => ledger' = ledger]_vars

\* A username's second winning return has just been written: its record counts
\* two wins, and another username has none.
C14_Witness ==
    /\ op.name = "ledgerComplete"
    /\ op.args = <<TRUE>>
    /\ WinnerReturned(ret)
    /\ GamesWon(ledger, Val(ret).username) = 2
    /\ \E p \in Players : Username(p) \notin DOMAIN ledger

\* C15: the participant set is exactly the set of user ids of the sessions
\* that are connected now; in particular it holds no transport-session id and
\* no user id whose sessions have all been removed.
C15_ParticipantsAreConnectedUserIds ==
    gameState.participants = {connectedUsers[s].id : s \in DOMAIN connectedUsers}

\* C16 as stated: when a submission is made the winner, its user id is in the
\* round's participant set.
C16_WinnerIsParticipant ==
    (op.name = "submitAnswer" /\ ret = Null /\ gameState.winner # Null)
        => Val(gameState.winner).userId \in gameState.participants

\* C16 amended: the winner of a round is whoever makes the first submission
\* within tolerance while the round is active, under the user id and name
\* passed with it; the participant set is not consulted. A winner is
\* recorded by such a submission and by no other step.
C16_FirstCorrectSubmitterWins ==
    [][/\ (/\ op'.name = "submitAnswer"
           /\ RoundActive
           /\ WithinTolerance(op'.args[3], CurrentAnswer))
          => /\ gameState'.winner # Null
             /\ Val(gameState'.winner).userId = op'.args[1]
             /\ Val(gameState'.winner).username = op'.args[2]
       /\ (gameState.winner = Null /\ gameState'.winner # Null)
          => /\ op'.name = "submitAnswer"
             /\ RoundActive
             /\ WithinTolerance(op'.args[3], CurrentAnswer)]_vars

\* A user id that no session ever presented has just been recorded as the
\* winner of a round whose participant set holds a joined session.
C16_Witness ==
    /\ op.name = "submitAnswer"
    /\ ret = Null
    /\ gameState.winner # Null
    /\ gameState.participants # {}
    /\ Val(gameState.winner).userId \notin gameState.participants
    /\ \A s \in DOMAIN connectedUsers :
          connectedUsers[s].id # Val(gameState.winner).userId

\* C17: the participant set handed out by getGameState and to the
\* question-change callback is a copy. It holds the round's participants
\* when it is handed out, and when its holder adds to it or deletes from it
\* the round's own set does not change; so a snapshot taken later shows the
\* round's participants and nothing of the edit.
C17_HandedOutParticipantsAreACopy ==
    [][/\ op'.name = "mutateHeld" => gameState' = gameState
       /\ (op'.name = "getGameState"
            \/ (op'.name = "timer" /\ questionChangeCallback))
          => /\ held' # Null
             /\ ElementsOf(Val(held))' = gameState'.participants]_vars

\* The holder has just added to a handed-out set an identifier that the
\* round's own participant set does not contain.
C17_Witness ==
    /\ op.name = "mutateHeld"
    /\ op.args[2]
    /\ op.args[1] \in ElementsOf(Val(held))
    /\ op.args[1] \notin gameState.participants
    /\ gameState.participants # {}

\* The round apart from its participant set.
RoundProper(gs) == <<gs.currentQuestion, gs.isActive, gs.startTime, gs.winner>>

\* C18: a join (addUser) or a disconnect (removeUser) changes presence only:
\* the session map gains or loses that session and the participant set gains
\* or loses that user id; a join may append one delayed round start to the
\* pending timers and a disconnect leaves them alone. Neither changes, in
\* that step, the current question, the active flag, the start time, the
\* winner record, the lock or the difficulty.
C18_PresenceChangesOnlyPresence ==
    [][(op'.name \in {"join-game", "disconnect"})
       => /\ RoundProper(gameState') = RoundProper(gameState)
          /\ UNCHANGED <<submissionLock, currentDifficulty, questionCounter,
                         calls, ledger>>
          /\ op'.name = "join-game"
                => /\ DOMAIN connectedUsers' = DOMAIN connectedUsers \cup {op'.args[1]}
                   /\ gameState'.participants =
                        gameState.participants \cup {op'.args[2]}
                   /\ \/ timers' = timers
                      \/ timers' = Append(timers, [kind |-> "join", delay |-> JoinDelay,
                                                   qid |-> QidOf(gameState)])
          /\ op'.name = "disconnect"
                => /\ DOMAIN connectedUsers' = DOMAIN connectedUsers \ {op'.args[1]}
                   /\ gameState'.participants \subseteq gameState.participants
                   /\ timers' = timers
          /\ \A s \in DOMAIN connectedUsers' \ {op'.args[1]} :
                connectedUsers'[s] = connectedUsers[s]]_vars

\* A second session has just joined a round that a winner closed and whose
\* winning call still holds the lock.
C18_Witness ==
    /\ op.name = "join-game"
    /\ Cardinality(DOMAIN connectedUsers) = 2
    /\ gameState.winner # Null
    /\ ~gameState.isActive
    /\ submissionLock

NumericAnswers == {data[2] : data \in {d \in SocketPayloads : d[1] = "number"}}

\* C20: on the socket channel, a submit-answer event from a session that has
\* not joined, or with an answer that is not a number, is answered with an
\* error result and changes nothing of the service's state; submitAnswer is
\* only ever called with the identity of a session that has joined and with
\* a numeric answer, and only such an identity is recorded as winner.
C20_UnjoinedOrMalformedSubmitIsRejected ==
    [][/\ op'.name = "submit-answer"
            => /\ \/ op'.args[1] \notin DOMAIN connectedUsers
                  \/ op'.args[2][1] # "number"
               /\ Len(out') = 1
               /\ out'[1].type = "submission-result"
               /\ "error" \in DOMAIN out'[1]
               /\ ret' = Null
               /\ UNCHANGED <<svc, now, winsReturned>>
       /\ op'.name = "submitAnswer"
            => /\ \E s \in DOMAIN connectedUsers :
                     /\ connectedUsers[s].id = op'.args[1]
                     /\ connectedUsers[s].username = op'.args[2]
               /\ op'.args[3] \in NumericAnswers
       /\ (gameState'.winner # Null /\ gameState'.winner # gameState.winner)
            => \E s \in DOMAIN connectedUsers :
                  connectedUsers[s].id = Val(gameState'.winner).userId]_vars

\* A session that has not joined has just sent the right answer to an active
\* round: it was told of an error and the round still has no winner.
C20_Witness ==
    /\ op.name = "submit-answer"
    /\ op.args[1] \notin DOMAIN connectedUsers
    /\ RoundActive
    /\ WithinTolerance(op.args[2][2], CurrentAnswer)
    /\ out[1].error = "Not authenticated. Please join the game first."

\* The display names the service holds: in presence, in the winner record,
\* in suspended winning calls and as ledger keys.
NamesHeld ==
    {connectedUsers[s].username : s \in DOMAIN connectedUsers}
        \cup (IF gameState.winner = Null THEN {} ELSE {Val(gameState.winner).username})
        \cup {calls[i].username : i \in 1..Len(calls)}
        \cup DOMAIN ledger

\* C21: a join or HTTP submission whose username is shorter than 2 or longer
\* than 20 characters is rejected with no state change, and every display
\* name the service holds has between 2 and 20 characters.
C21_UsernamesHeldAreTwoToTwenty ==
    /\ [](\A n \in NamesHeld : Len(n) >= 2 /\ Len(n) <= 20)
    /\ [][(op'.name \in {"join-game-rejected", "post-submit-rejected"})
            => /\ UNCHANGED <<svc, now, winsReturned>>
               /\ out'[1].type = "error"]_vars

\* C22: the limit passed to the ledger query is 10 when the limit parameter
\* is absent, zero or not a number, and the smaller of the requested limit
\* and 50 when a non-zero integer is supplied (1 gives 1, 50 gives 50, 51 and
\* 200 give 50, -5 gives -5); it never exceeds 50, and the response carries
\* no more entries than that.
C22_LeaderboardLimitIsClamped ==
    op.name = "get-leaderboard"
        => LET query == op.args[1]
               limit == op.args[2]
           IN  /\ limit <= 50
               /\ query \in {<< >>, <<"0">>, <<"a", "b">>} => limit = 10
               /\ query = <<"1">> => limit = 1
               /\ query = <<"5", "0">> => limit = 50
               /\ query = <<"5", "1">> => limit = 50
               /\ query = <<"2", "0", "0">> => limit = 50
               /\ query = <<"-", "5">> => limit = -5
               /\ Len(out[1].leaderboard) <= 50

\* A request with limit=200 was served from a ledger with two records.
C22_Witness ==
    /\ op.name = "get-leaderboard"
    /\ op.args = <<(<<"2", "0", "0">>), 50>>
    /\ Cardinality(DOMAIN ledger) = 2
    /\ out[1].total = 2

\* C23 as stated: after forceNewQuestion the round is closed, with isActive
\* false and no winner.
C23_ForcedResetClosesRound ==
    op.name = "forceNewQuestion" => (~gameState.isActive /\ gameState.winner = Null)

\* C23 amended: forceNewQuestion starts the next round at once. When it
\* returns there is a new question (the next id), started at that instant,
\* active, without winner and with the lock free, so submissions are taken
\* immediately; no delay is scheduled and the pending timers are kept.
C23_ForceStartsRoundAtOnce ==
    [][op'.name = "forceNewQuestion"
        => /\ gameState'.currentQuestion # Null
           /\ Val(gameState'.currentQuestion).id = questionCounter + 1
           /\ Val(gameState'.currentQuestion).id # QidOf(gameState)
           /\ gameState'.isActive
           /\ gameState'.startTime = Some(now)
           /\ gameState'.winner = Null
           /\ ~submissionLock'
           /\ timers' = timers]_vars

\* forceNewQuestion has just replaced a round that a winner had closed and
\* whose winning call is still suspended: the new round is active.
C23_Witness ==
    /\ op.name = "forceNewQuestion"
    /\ Len(calls) > 0
    /\ RoundActive
    /\ Val(gameState.currentQuestion).id = 2

\* The question returned by the last generateQuestion call.
Generated == Val(gen.returned)

\* C24: every question generateQuestion returns has a finite answer of
\* magnitude below 1,000,000, whatever the difficulty, the archetype and the
\* random draws, the fallback included.
C24_ReturnedAnswersAreValid ==
    gen.returned # Null => Abs(Generated.question.answer) < AnswerLimit * 1000

\* The answer worked out again from the numbers and operators a problem text
\* shows, with the formula and the rounding of its archetype.
Recompute(problem) ==
    LET n == problem.nums
    IN  CASE problem.form = "calculate" -> RoundTo(evaluate(n, problem.ops), 100)
          [] problem.form = "if ax + b = c find x" -> RoundTo(<<n[3] - n[2], n[1]>>, 1000)
          [] problem.form = "solve ax - b = c" -> RoundTo(<<n[3] + n[2], n[1]>>, 1000)
          [] problem.form = "x when a(x + b) = c" ->
                 RoundTo(<<n[3] - n[1] * n[2], n[1]>>, 1000)
          [] problem.form = "find x: ax = c" -> RoundTo(<<n[2], n[1]>>, 1000)
          [] problem.form = "fractions as decimal" ->
                 IF problem.ops[1] = "+"
                 THEN RoundTo(<<n[1] * n[4] + n[3] * n[2], n[2] * n[4]>>, 1000)
                 ELSE RoundTo(<<n[1] * n[4] - n[3] * n[2], n[2] * n[4]>>, 1000)
          [] problem.form = "what is p% of n" -> RoundTo(<<n[1] * n[2], 100>>, 100)
          [] problem.form = "n is what percent of m" -> RoundTo(<<n[1] * 100, n[2]>>, 100)
          [] problem.form = "power" -> Pow(n[1], n[2]) * 1000
          [] problem.form = "square root" ->
                 (CHOOSE s \in 0..n[1] : s * s <= n[1] /\ (s + 1) * (s + 1) > n[1]) * 1000
          [] problem.form = "(a + b) * c" -> RoundTo(<<(n[1] + n[2]) * n[3], 1>>, 100)
          [] problem.form = "a * (b + c)" -> RoundTo(<<n[1] * (n[2] + n[3]), 1>>, 100)
          [] problem.form = "(a + b) / c" -> RoundTo(<<n[1] + n[2], n[3]>>, 100)
          [] problem.form = "a + b * c" -> RoundTo(<<n[1] + n[2] * n[3], 1>>, 100)
          [] problem.form = "a * b - c" -> RoundTo(<<n[1] * n[2] - n[3], 1>>, 100)
          [] problem.form = "(a - b) + c * 2" ->
                 RoundTo(<<(n[1] - n[2]) + n[3] * 2, 1>>, 100)

\* C25: the stored answer of every returned question is the value worked out
\* again from the literal operands of its problem text, arithmetic questions
\* produced after 20 rejected expressions and inverse-percentage questions
\* included.
C25_AnswerMatchesProblemText ==
    gen.returned # Null =>
        Recompute(Generated.question.problem) = Generated.question.answer

\* C26: generateQuestion always returns a question.  Every call returns
\* after at most 50 rejected passes, an arithmetic pass after at most 20
\* expressions; the fallback is returned exactly when 50 passes were
\* rejected, and it shows two operands a, b and one of +, -, * with a + b,
\* a - b or a * b as answer.
C26_GenerateQuestionTerminates ==
    /\ questionCounter > 0 => gen.returned # Null
    /\ gen.returned # Null =>
          LET q == Generated.question
              a == q.problem.nums[1]
              b == q.problem.nums[2]
          IN  /\ Generated.attempts <= MaxAttempts
              /\ Generated.tries <= MaxExpressionTries
              /\ Generated.fallback <=> Generated.attempts = MaxAttempts
              /\ Generated.fallback =>
                    /\ q.problem.form = "calculate"
                    /\ Len(q.problem.nums) = 2
                    /\ Len(q.problem.ops) = 1
                    /\ \/ q.problem.ops[1] = "+" /\ q.answer = (a + b) * 1000
                       \/ q.problem.ops[1] = "-" /\ q.answer = (a - b) * 1000
                       \/ q.problem.ops[1] = "*" /\ q.answer = (a * b) * 1000

\* Fifty passes have just been rejected and the fallback returned a
\* subtraction with a negative result.
C26_Witness ==
    /\ gen.returned # Null
    /\ Generated.fallback
    /\ Generated.attempts = MaxAttempts
    /\ Generated.question.problem.ops[1] = "-"
    /\ Generated.question.answer < 0

\* C27: after every generateQuestion call the recent-key set holds at most
\* 150 keys, and a call that trims leaves exactly the 100 keys inserted
\* last: the 99 newest of the 150 it found and the key it inserted.
C27_KeySetIsBounded ==
    /\ [](Len(gen.generatedQuestions) <= DedupeCeiling)
    /\ [][(gen'.returned # Null /\ Val(gen'.returned).trimmed)
            => /\ Len(gen.generatedQuestions) = DedupeCeiling
               /\ Len(gen'.generatedQuestions) = DedupeFloor
               /\ gen'.generatedQuestions =
                     SubSeq(gen.generatedQuestions,
                            DedupeCeiling - DedupeFloor + 2, DedupeCeiling)
                     \o <<questionKey(Val(gen'.returned).question)>>]_vars

\* The 151st distinct key has just been inserted and the set was trimmed.
C27_Witness ==
    /\ gen.returned # Null
    /\ Generated.trimmed
    /\ Len(gen.generatedQuestions) = DedupeFloor
    /\ gen.generatedQuestions[DedupeFloor] = questionKey(Generated.question)

\* The archetype a problem text belongs to.
ArchetypeOf(problem) ==
    CASE problem.form = "calculate" -> "arithmetic"
      [] problem.form \in {"if ax + b = c find x", "solve ax - b = c",
                           "x when a(x + b) = c", "find x: ax = c"} -> "algebra"
      [] problem.form = "fractions as decimal" -> "fractions"
      [] problem.form \in {"what is p% of n", "n is what percent of m"} -> "percentages"
      [] problem.form \in {"power", "square root"} -> "powers"
      [] OTHER -> "mixed"

\* C28: the archetype of every returned question is eligible for the
\* difficulty asked for: arithmetic or algebra for easy, these and fractions
\* or percentages for medium, any of the six for hard; the fallback is
\* arithmetic.
C28_ArchetypeIsEligible ==
    gen.returned # Null =>
        LET archetype == ArchetypeOf(Generated.question.problem)
            difficulty == Generated.question.difficulty
        IN  /\ Generated.type = archetype
            /\ difficulty = "easy" => archetype \in {"arithmetic", "algebra"}
            /\ difficulty = "medium" =>
                  archetype \in {"arithmetic", "algebra", "fractions", "percentages"}
            /\ difficulty = "hard" =>
                  archetype \in {"arithmetic", "algebra", "fractions", "percentages",
                                 "powers", "mixed"}
            /\ Generated.fallback => archetype = "arithmetic"

\* A medium call has just returned a percentage question without a rejected
\* pass.
C28_Witness ==
    /\ gen.returned # Null
    /\ ~Generated.fallback
    /\ Generated.question.difficulty = "medium"
    /\ ArchetypeOf(Generated.question.problem) = "percentages"

C30_LockIsReleased ==
    /\ [](calls = << >> => ~submissionLock)
    /\ [][(op'.name = "submitAnswer" /\ submissionLock' /\ ~submissionLock)
            => ret' = Null /\ Len(calls') = Len(calls) + 1]_vars
    /\ [][op'.name = "ledgerComplete"
            => ~submissionLock' /\ Len(calls') = Len(calls) - 1]_vars

\* The only suspended call has just finished after a failed ledger write,
\* with no announcement callback registered, while the lock it set was
\* still held: the lock is free.
C30_Witness ==
    /\ op.name = "ledgerComplete"
    /\ op.args = <<FALSE>>
    /\ ~winnerAnnouncementCallback
    /\ ret # Null
    /\ Val(ret).result.isWinner
    /\ Val(ret).qid = QidOf(gameState)
    /\ ~gameState.isActive
    /\ calls = << >>
    /\ ~submissionLock

\* C31: at most one submitAnswer call at a time is between setting
\* submissionLock and its finally block, and the lock goes from held to free
\* only in the step in which a call that acquired it finishes.
C31_OneCallInCriticalSection ==
    /\ [](Len(calls) <= 1)
    /\ [][(submissionLock /\ ~submissionLock') => op'.name = "ledgerComplete"]_vars

\* C32 as stated: a call that finds at most 100 keys never returns a question
\* whose key is among them, and a call that finds more than 100 keys accepts
\* its first candidate.
C32_NoRepeatWhileSetIsSmall ==
    [][questionCounter' # questionCounter
        => LET keys == gen.generatedQuestions
               r == Val(gen'.returned)
           IN  /\ Len(keys) <= DedupeFloor => ~HasKey(keys, questionKey(r.question))
               /\ Len(keys) > DedupeFloor => ~r.fallback /\ r.attempts = 0]_vars

\* C32 amended: a question returned by a pass of the loop has a key that is
\* not among the at most 100 keys the call found; a call that finds more than
\* 100 keys accepts its first candidate; the fallback, returned after 50
\* rejected passes by a call that found at most 100 keys, is not compared
\* with the keys and leaves them as they are.
C32_NoRepeatFromAcceptedPass ==
    [][questionCounter' # questionCounter
        => LET keys == gen.generatedQuestions
               r == Val(gen'.returned)
           IN  /\ (Len(keys) <= DedupeFloor /\ ~r.fallback)
                     => ~HasKey(keys, questionKey(r.question))
               /\ Len(keys) > DedupeFloor => ~r.fallback /\ r.attempts = 0
               /\ r.fallback => /\ r.attempts = MaxAttempts
                                /\ Len(keys) <= DedupeFloor
                                /\ gen'.generatedQuestions = keys]_vars

\* The fallback has just returned a question whose key is among the keys,
\* fewer than 100, that the call found.
C32_Witness ==
    /\ gen.returned # Null
    /\ Generated.fallback
    /\ Len(gen.generatedQuestions) < DedupeFloor
    /\ HasKey(gen.generatedQuestions, questionKey(Generated.question))

\* C33: a returned integer-power question never has a result above 10000;
\* when base^power is above 10000 the question is a square-root one.
C33_LargePowersBecomeRoots ==
    (gen.returned # Null /\ Generated.question.problem.form = "power")
        => Pow(Generated.question.problem.nums[1], Generated.question.problem.nums[2])
              <= RootThreshold

\* C34: an expression of the arithmetic archetype has 2 to maxTerms operands
\* of the difficulty, operators of the difficulty only, every operand, a
\* divisor chosen for an even division included, within [min, max], and no
\* divisor 0.
C34_ExpressionWithinDifficulty ==
    (gen.returned # Null /\ Generated.type = "arithmetic" /\ ~Generated.fallback)
        => LET problem == Generated.question.problem
               config == DIFFICULTY_CONFIG(Generated.question.difficulty)
           IN  /\ Len(problem.nums) >= 2
               /\ Len(problem.nums) <= config.maxTerms
               /\ Len(problem.ops) = Len(problem.nums) - 1
               /\ \A i \in DOMAIN problem.ops :
                     /\ \E j \in DOMAIN config.operators :
                           config.operators[j] = problem.ops[i]
                     /\ problem.ops[i] = "/" => problem.nums[i + 1] # 0
               /\ \A i \in DOMAIN problem.nums :
                     problem.nums[i] >= config.min /\ problem.nums[i] <= config.max

\* C35: presence is keyed by session id only.  The connected count is the
\* number of sessions added and not since removed: addUser(s, u, n) puts
\* (u, n) at s, adding s to the sessions if it is new and touching no other
\* session, whatever user ids the others carry; removeUser(s) takes s away
\* and nothing else, and changes nothing when s is unknown; nothing else
\* changes the sessions.
C35_PresenceIsKeyedBySession ==
    [][LET before == DOMAIN connectedUsers
           after == DOMAIN connectedUsers'
           s == op'.args[1]
       IN  /\ getConnectedUsersCount' = Cardinality(after)
           /\ op'.name = "addUser" =>
                 /\ after = before \cup {s}
                 /\ getConnectedUsersCount' =
                        getConnectedUsersCount + (IF s \in before THEN 0 ELSE 1)
                 /\ connectedUsers'[s].id = op'.args[2]
                 /\ connectedUsers'[s].username = op'.args[3]
                 /\ \A t \in before \ {s} : connectedUsers'[t] = connectedUsers[t]
           /\ op'.name = "removeUser" =>
                 /\ after = before \ {s}
                 /\ \A t \in after : connectedUsers'[t] = connectedUsers[t]
                 /\ s \notin before =>
                       connectedUsers' = connectedUsers /\ gameState' = gameState
           /\ op'.name \notin {"addUser", "removeUser"} =>
                 connectedUsers' = connectedUsers]_vars

\* After an addUser three sessions are counted, two of them under one user
\* id, and one carries user id 1 with the display name of player 2.
C35_Witness ==
    /\ op.name = "addUser"
    /\ getConnectedUsersCount = 3
    /\ \E s, t \in DOMAIN connectedUsers :
          s # t /\ connectedUsers[s].id = connectedUsers[t].id
    /\ \E s \in DOMAIN connectedUsers :
          connectedUsers[s].id = UserId(1) /\ connectedUsers[s].username = Username(2)

\* C36: no submitAnswer call returns isCorrect true with isWinner false.  In
\* every state an active round has the lock free and no winner, so a call
\* that passes the first check of the round never finds the gate closed.
C36_NoCorrectNonWinner ==
    /\ gameState.isActive => (~submissionLock /\ gameState.winner = Null)
    /\ ret # Null => (Val(ret).result.isCorrect => Val(ret).result.isWinner)

\* A winning answer sent after the round was won, while the winning call
\* still holds the lock: it is turned away as if it were wrong.
C36_Witness ==
    /\ op.name = "submitAnswer"
    /\ submissionLock
    /\ gameState.winner # Null
    /\ ret # Null
    /\ WithinTolerance(Val(ret).answer, CurrentAnswer)
    /\ ~Val(ret).result.isCorrect

\* The base score of a difficulty and the score the ledger holds for a name.
BaseFor(difficulty) ==
    CASE difficulty = "easy" -> 100
      [] difficulty = "medium" -> 250
      [] difficulty = "hard" -> 500
HighScore(l, username) == IF username \in DOMAIN l THEN l[username].highScore ELSE 0

\* C37: the score of a win is floor(base + max(0, 10000 - timeTaken) / 1000)
\* with the base (100, 250, 500) of the difficulty of the round won: a call
\* that wins fixes that score from the question it answered, between base and
\* base + 10, and a successful write adds exactly the score so fixed,
\* whatever round is current when the write completes.
C37_ScoreIsBasePlusBonus ==
    [][/\ (op'.name = "submitAnswer" /\ Len(calls') = Len(calls) + 1) =>
             LET c == calls'[Len(calls')]
                 base == BaseFor(Val(gameState.currentQuestion).difficulty)
                 timeTaken == now - Val(gameState.startTime)
                 bonus == IF timeTaken >= 10000 THEN 0 ELSE 10000 - timeTaken
             IN  /\ c.totalScore = (1000 * base + bonus) \div 1000
                 /\ c.totalScore >= base
                 /\ c.totalScore <= base + 10
       /\ (op'.name = "ledgerComplete" /\ op'.args[1]) =>
             \E i \in 1..Len(calls) :
                 /\ calls' = RemoveAt(calls, i)
                 /\ HighScore(ledger', calls[i].username) =
                        HighScore(ledger, calls[i].username) + calls[i].totalScore]_vars

\* A win of an easy round after 6.25 seconds (100 + 3) is written while a
\* medium round is current.
C37_Witness ==
    /\ op.name = "ledgerComplete"
    /\ op.args[1]
    /\ currentDifficulty = "medium"
    /\ \E n \in DOMAIN ledger : ledger[n].highScore = 103

\* C38: whatever integer the limit parameter holds, zero and negative
\* included, the limit passed to the ledger query is at least 1.
C38_LimitIsAtLeastOne ==
    op.name = "get-leaderboard" => op.args[2] >= 1

\* C39: in every state a held lock goes with a recorded winner and a closed
\* round.
C39_LockImpliesWinnerAndClosed ==
    submissionLock => (gameState.winner # Null /\ ~gameState.isActive)

\* The lock is taken by the winner of a second round while the call that won
\* the first one is still waiting for its write.
C39_Witness ==
    /\ op.name = "submitAnswer"
    /\ submissionLock
    /\ Len(calls) = 2
    /\ calls[1].qid # calls[2].qid

====
